---- MODULE Spec2Model ----
(***************************************************************************)
(* Target discovery of test-network-function (package autodiscover) and    *)
(* the ArgListToMap helper of pkg/utils.                                   *)
(*                                                                         *)
(* Go slices are sequences, Go maps are functions whose DOMAIN is the key  *)
(* set, a (value, error) result is a record with an err flag, and a Go     *)
(* string whose characters matter (CRD names, "key=value" arguments) is a  *)
(* sequence of one-character strings.                                      *)
(***************************************************************************)
EXTENDS Integers, Sequences, FiniteSets, TLC

\* ------------------------------------------------------------------ bounds
MaxNodeNames == 2      \* names returned by one node-role query
MaxCrds == 2           \* CRD names listed by the cluster
MaxFilters == 2        \* configured CRD filters
MaxCrdLen == 2         \* characters of a CRD name
MaxSuffixLen == 1      \* characters of a filter's NameSuffix
MaxTests == 2          \* entries of a test-name list
MaxContainers == 2     \* containers of a pod spec
MaxArgs == 2           \* strings handed to ArgListToMap
MaxArgLen == 5         \* characters of one argument
MaxCalls == 2          \* FindTestTarget calls on one catalog

\* --------------------------------------------------------------- utilities
Range(s) == {s[i] : i \in DOMAIN s}
SeqsUpTo(S, n) == UNION {[1..k -> S] : k \in 0..n}
IsPrefix(s, t) == Len(s) <= Len(t) /\ SubSeq(t, 1, Len(s)) = s
EmptyMap == [x \in {} |-> x]
\* m[k] = v of a Go map
Put(m, k, v) == [x \in DOMAIN m \cup {k} |-> IF x = k THEN v ELSE m[x]]

VARIABLES
    \* FindTestTarget
    target,              \* the *configsections.TestTarget passed in
    pc,                  \* "idle" | "done" (the call returned) | "panicked"
    calls,               \* FindTestTarget calls made on the catalog
    env,                 \* what the cluster answered to the last call's queries
    configuredPodTests,  \* testcases.GetConfiguredPodTests()
    configuredTestFile,  \* testcases.LoadConfiguredTestFile(ConfiguredTestFile)
    \* GetNodesList
    masterRun, workerRun, nodes, nodesPc,
    \* FindTestCrdNames
    crdOut, crdFilters, targetCrdNames, crdPc,
    \* buildPodUnderTest
    pr, podUnderTest, podPc,
    \* ArgListToMap
    lst, retval, argPc

mainVars == <<target, pc, calls, env, configuredTestFile>>
nodeVars == <<masterRun, workerRun, nodes, nodesPc>>
crdVars == <<crdOut, crdFilters, targetCrdNames, crdPc>>
podVars == <<pr, podUnderTest, podPc>>
argVars == <<lst, retval, argPc>>
vars == <<mainVars, configuredPodTests, nodeVars, crdVars, podVars, argVars>>

\* ============================================================ GetNodesList
MasterLabel == "master"
WorkerLabel == "worker"
NodeNames == {"node-a", "node-b", "node-c"}

\* test.Run() of one nodenames tester followed by tester.GetNodeNames()
NodeRunFailed == [err |-> TRUE, names |-> <<>>]
NodeRuns(n) == {NodeRunFailed} \cup {[err |-> FALSE, names |-> s] : s \in SeqsUpTo(NodeNames, n)}

MasterEntry(m, n) == Put(m, n, [Name |-> n, Labels |-> <<MasterLabel>>])

WorkerEntryOverwrite(m, n) == Put(m, n, [Name |-> n, Labels |-> <<WorkerLabel>>])
WorkerEntry(m, n) ==
    IF n \in DOMAIN m
    THEN Put(m, n, [m[n] EXCEPT !.Labels = Append(@, WorkerLabel)])
    ELSE Put(m, n, [Name |-> n, Labels |-> <<WorkerLabel>>])

RECURSIVE AddMasters(_, _)
AddMasters(m, names) ==
    IF names = <<>> THEN m ELSE AddMasters(MasterEntry(m, Head(names)), Tail(names))

RECURSIVE AddWorkers(_, _)
AddWorkers(m, names) ==
    IF names = <<>> THEN m ELSE AddWorkers(WorkerEntry(m, Head(names)), Tail(names))

\* The master query's failure returns the empty map at once: the worker query
\* is not issued.
GetNodesList(master, worker) ==
    IF master.err THEN EmptyMap
    ELSE LET m == AddMasters(EmptyMap, master.names)
         IN  IF worker.err THEN m ELSE AddWorkers(m, worker.names)

NodesIdle ==
    /\ masterRun = NodeRunFailed /\ workerRun = NodeRunFailed
    /\ nodes = EmptyMap /\ nodesPc = "idle"

RunGetNodesList ==
    /\ nodesPc = "start"
    /\ nodes' = GetNodesList(masterRun, workerRun)
    /\ nodesPc' = "done"
    /\ UNCHANGED <<masterRun, workerRun>>
    /\ UNCHANGED <<mainVars, configuredPodTests, crdVars, podVars, argVars>>

\* ======================================================== FindTestCrdNames
CrdChars == {"a", "b"}
CrdNames == SeqsUpTo(CrdChars, MaxCrdLen)
CrdFilters == {[NameSuffix |-> s] : s \in SeqsUpTo(CrdChars, MaxSuffixLen)}

\* json.Unmarshal of the listing command's output, getClusterCrdNames
CrdDecodeFailed == [err |-> TRUE, names |-> <<>>]
CrdOuts == {CrdDecodeFailed} \cup {[err |-> FALSE, names |-> s] : s \in SeqsUpTo(CrdNames, MaxCrds)}

\* strings.HasSuffix
HasSuffix(s, suffix) ==
    /\ Len(s) >= Len(suffix)
    /\ SubSeq(s, Len(s) - Len(suffix) + 1, Len(s)) = suffix

\* One pass of the inner loop; rest is what the filters after this one append.
FilterStepNoBreak(crdName, crdFilter, rest) ==
    IF HasSuffix(crdName, crdFilter.NameSuffix) THEN <<crdName>> \o rest ELSE rest
FilterStep(crdName, crdFilter, rest) ==
    IF HasSuffix(crdName, crdFilter.NameSuffix) THEN <<crdName>> ELSE rest

\* The inner loop: what one cluster CRD name appends to targetCrdNames.
RECURSIVE FilterLoop(_, _)
FilterLoop(crdName, filters) ==
    IF filters = <<>> THEN <<>>
    ELSE FilterStep(crdName, Head(filters), FilterLoop(crdName, Tail(filters)))

RECURSIVE CrdLoop(_, _)
CrdLoop(clusterCrdNames, filters) ==
    IF clusterCrdNames = <<>> THEN <<>>
    ELSE FilterLoop(Head(clusterCrdNames), filters) \o CrdLoop(Tail(clusterCrdNames), filters)

FindTestCrdNames(filters, out) ==
    IF out.err THEN <<>> ELSE CrdLoop(out.names, filters)

CrdIdle ==
    /\ crdOut = CrdDecodeFailed /\ crdFilters = <<>>
    /\ targetCrdNames = <<>> /\ crdPc = "idle"

RunFindTestCrdNames ==
    /\ crdPc = "start"
    /\ targetCrdNames' = FindTestCrdNames(crdFilters, crdOut)
    /\ crdPc' = "done"
    /\ UNCHANGED <<crdOut, crdFilters>>
    /\ UNCHANGED <<mainVars, configuredPodTests, nodeVars, podVars, argVars>>

\* ============================================================ ArgListToMap
ArgChars == {"a", "="}
Args == SeqsUpTo(ArgChars, MaxArgLen)

\* strings.Split(s, "="): the pieces between the separators, all of them
RECURSIVE Split(_)
Split(s) ==
    IF \A i \in 1..Len(s) : s[i] # "=" THEN <<s>>
    ELSE LET i == CHOOSE j \in 1..Len(s) : s[j] = "=" /\ \A h \in 1..(j - 1) : s[h] # "="
         IN  <<SubSeq(s, 1, i - 1)>> \o Split(SubSeq(s, i + 1, Len(s)))

\* The loop body: one argument stored in retval.
StoreArg(m, arg) ==
    LET splitArgs == Split(arg)
    IN  IF Len(splitArgs) = 1
        THEN Put(m, splitArgs[1], <<>>)
        ELSE Put(m, splitArgs[1], splitArgs[2])

RECURSIVE ArgLoop(_, _)
ArgLoop(m, l) == IF l = <<>> THEN m ELSE ArgLoop(StoreArg(m, Head(l)), Tail(l))

ArgListToMap(l) == ArgLoop(EmptyMap, l)

ArgsIdle == lst = <<>> /\ retval = EmptyMap /\ argPc = "idle"

RunArgListToMap ==
    /\ argPc = "start"
    /\ retval' = ArgListToMap(lst)
    /\ argPc' = "done"
    /\ UNCHANGED lst
    /\ UNCHANGED <<mainVars, configuredPodTests, nodeVars, crdVars, podVars>>

\* ======================================================= buildPodUnderTest
podTestsAnnotationName == "host_resource_tests"
operatorTestsAnnotationName == "operator_tests"
subscriptionNameAnnotationName == "subscription_name"

TestNames == {"t1", "t2"}
TestLists == SeqsUpTo(TestNames, MaxTests)

\* The text of an annotation: JSON that decodes into a list of strings, or not.
Malformed == [bad |-> TRUE, list |-> <<>>]
AnnotationTexts(lists) == {Malformed} \cup {[bad |-> FALSE, list |-> l] : l \in lists}
\* The annotations of a resource: some of the keys, each with a text.
AnnotationMaps(keys, lists) ==
    UNION {[ks -> AnnotationTexts(lists)] : ks \in SUBSET keys}

\* GetAnnotationValue(key, &v): an error when the key is absent or its text
\* does not decode; otherwise v is the decoded list.
GetAnnotationValue(annotations, key) ==
    IF key \notin DOMAIN annotations THEN [err |-> TRUE, v |-> <<>>]
    ELSE IF annotations[key].bad THEN [err |-> TRUE, v |-> <<>>]
    ELSE [err |-> FALSE, v |-> annotations[key].list]

Containers(n) == [i \in 1..n |-> i]

PodResources ==
    [Namespace : {"ns1", "ns2"}, Name : {"pod-a", "pod-b"}, ServiceAccount : {"", "sa"},
     Containers : {Containers(n) : n \in 0..MaxContainers},
     Annotations : AnnotationMaps({podTestsAnnotationName}, TestLists)]

\* The branch on the annotation's error: the fallback, or the decoded list.
PodTestsNoFallback(got, fallback) == got.v
PodTestsAlwaysFallback(got, fallback) == fallback
PodTests(got, fallback) == IF got.err THEN fallback ELSE got.v

buildPodUnderTest(res, fallback) ==
    [Namespace |-> res.Namespace,
     Name |-> res.Name,
     ServiceAccount |-> res.ServiceAccount,
     ContainerCount |-> Len(res.Containers),
     Tests |-> PodTests(GetAnnotationValue(res.Annotations, podTestsAnnotationName), fallback)]

NoPodResource ==
    [Namespace |-> "", Name |-> "", ServiceAccount |-> "", Containers |-> <<>>,
     Annotations |-> EmptyMap]
NoPod ==
    [Namespace |-> "", Name |-> "", ServiceAccount |-> "", ContainerCount |-> 0,
     Tests |-> <<>>]

PodIdle == pr = NoPodResource /\ podUnderTest = NoPod /\ podPc = "idle"

RunBuildPodUnderTest ==
    /\ podPc = "start"
    /\ podUnderTest' = buildPodUnderTest(pr, configuredPodTests)
    /\ podPc' = "done"
    /\ UNCHANGED <<pr, configuredPodTests>>
    /\ UNCHANGED <<mainVars, nodeVars, crdVars, argVars>>

\* ============================================ buildOperatorFromCSVResource
\* testcases.LoadConfiguredTestFile: the operator test groups, or an error
TestFileUnreadable == [err |-> TRUE, OperatorTest |-> <<>>]
TestFiles == {TestFileUnreadable, [err |-> FALSE, OperatorTest |-> <<[Name |-> "op-tests"]>>]}

getConfiguredOperatorTests(file) ==
    IF file.err THEN <<>> ELSE [i \in 1..Len(file.OperatorTest) |-> file.OperatorTest[i].Name]

\* op.SubscriptionName = subscriptionName[0] indexes the decoded list without
\* looking at its length: an empty list is an index out of range, a panic.
buildOperatorFromCSVResource(csv, file) ==
    LET tests == GetAnnotationValue(csv.Annotations, operatorTestsAnnotationName)
        subscriptionName == GetAnnotationValue(csv.Annotations, subscriptionNameAnnotationName)
        op == [Name |-> csv.Name,
               Namespace |-> csv.Namespace,
               Tests |-> IF tests.err THEN getConfiguredOperatorTests(file) ELSE tests.v,
               SubscriptionName |-> ""]
    IN  IF subscriptionName.err THEN [panic |-> FALSE, op |-> op]
        ELSE IF Len(subscriptionName.v) = 0 THEN [panic |-> TRUE, op |-> op]
        ELSE [panic |-> FALSE, op |-> [op EXCEPT !.SubscriptionName = subscriptionName.v[1]]]

\* ========================================================== FindTestTarget
Labels == <<"L1", "L2">>

EmptyTarget ==
    [PodsUnderTest |-> <<>>, ContainerConfigList |-> <<>>, Operators |-> <<>>,
     DeploymentsUnderTest |-> <<>>, Nodes |-> EmptyMap,
     ExcludeContainersFromConnectivityTests |-> <<>>]

QueryFailed == [err |-> TRUE, items |-> <<>>]
Found(items) == [err |-> FALSE, items |-> items]

PodA ==
    [Namespace |-> "ns1", Name |-> "pod-a", ServiceAccount |-> "sa", Containers |-> Containers(2),
     Annotations |-> [k \in {podTestsAnnotationName} |-> [bad |-> FALSE, list |-> <<"t2">>]]]
PodB ==
    [Namespace |-> "ns1", Name |-> "pod-b", ServiceAccount |-> "", Containers |-> Containers(1),
     Annotations |-> EmptyMap]
DeploymentA == [Name |-> "dep-a", Namespace |-> "ns1", Replicas |-> 2]
CsvPlain == [Name |-> "csv-plain", Namespace |-> "ns1", Annotations |-> EmptyMap]
CsvFull ==
    [Name |-> "csv-full", Namespace |-> "ns1",
     Annotations |-> [k \in {operatorTestsAnnotationName, subscriptionNameAnnotationName} |->
                        IF k = operatorTestsAnnotationName
                        THEN [bad |-> FALSE, list |-> <<"t1">>]
                        ELSE [bad |-> FALSE, list |-> <<"sub">>]]]
CsvMalformed ==
    [Name |-> "csv-bad", Namespace |-> "ns2",
     Annotations |-> [k \in {operatorTestsAnnotationName, subscriptionNameAnnotationName} |->
                        Malformed]]
CsvNoSubscriptions ==
    [Name |-> "csv-nosub", Namespace |-> "ns1",
     Annotations |-> [k \in {subscriptionNameAnnotationName} |-> [bad |-> FALSE, list |-> <<>>]]]

\* What the cluster answers to the queries of one call.
Envs ==
    [pods : [Range(Labels) -> {QueryFailed, Found(<<>>), Found(<<PodA, PodB>>)}],
     deployments : [Range(Labels) -> {QueryFailed, Found(<<DeploymentA>>)}],
     identifiers : {QueryFailed, Found(<<"pod-a/c1">>)},
     csvs : {QueryFailed, Found(<<CsvFull>>), Found(<<CsvMalformed>>),
             Found(<<CsvPlain, CsvNoSubscriptions>>)},
     master : {NodeRunFailed, [err |-> FALSE, names |-> <<"node-a">>]},
     worker : {NodeRunFailed, [err |-> FALSE, names |-> <<"node-a", "node-b">>]}]
NoEnv ==
    [pods |-> [l \in Range(Labels) |-> QueryFailed],
     deployments |-> [l \in Range(Labels) |-> QueryFailed],
     identifiers |-> QueryFailed, csvs |-> QueryFailed,
     master |-> NodeRunFailed, worker |-> NodeRunFailed]

\* one entry per container of the pod spec
buildContainersFromPodResource(res) ==
    [i \in 1..Len(res.Containers) |->
        [Namespace |-> res.Namespace, PodName |-> res.Name, ContainerName |-> res.Containers[i]]]

\* for i := range pods.Items
RECURSIVE AppendPods(_, _, _)
AppendPods(t, items, fallback) ==
    IF items = <<>> THEN t
    ELSE AppendPods(
            [t EXCEPT !.PodsUnderTest = Append(@, buildPodUnderTest(Head(items), fallback)),
                      !.ContainerConfigList = @ \o buildContainersFromPodResource(Head(items))],
            Tail(items), fallback)

\* for _, l := range labels: find pods by label
RECURSIVE PodLoop(_, _, _, _)
PodLoop(t, labels, e, fallback) ==
    IF labels = <<>> THEN t
    ELSE LET pods == e.pods[Head(labels)]
         IN  PodLoop(IF pods.err THEN t ELSE AppendPods(t, pods.items, fallback),
                     Tail(labels), e, fallback)

\* for i := range csvs.Items: a panicking build leaves the operators appended so far
RECURSIVE OperatorLoop(_, _, _)
OperatorLoop(ops, items, file) ==
    IF items = <<>> THEN [ops |-> ops, panic |-> FALSE]
    ELSE LET b == buildOperatorFromCSVResource(Head(items), file)
         IN  IF b.panic THEN [ops |-> ops, panic |-> TRUE]
             ELSE OperatorLoop(Append(ops, b.op), Tail(items), file)

DeploymentEntity(deploymentResource) ==
    [Name |-> deploymentResource.Name,
     Namespace |-> deploymentResource.Namespace,
     Replicas |-> deploymentResource.Replicas]

RECURSIVE FindTestDeployments(_, _)
FindTestDeployments(targetLabels, e) ==
    IF targetLabels = <<>> THEN <<>>
    ELSE LET deploymentResourceList == e.deployments[Head(targetLabels)]
             found == IF deploymentResourceList.err THEN <<>>
                      ELSE [i \in 1..Len(deploymentResourceList.items) |->
                                DeploymentEntity(deploymentResourceList.items[i])]
         IN  found \o FindTestDeployments(Tail(targetLabels), e)

\* The whole call. A panic in the operator step leaves the catalog as the
\* steps before it wrote it: deployments and nodes are not reached.
FindTestTarget(labels, t, e, fallback, file) ==
    LET t1 == PodLoop(t, labels, e, fallback)
        t2 == [t1 EXCEPT !.ExcludeContainersFromConnectivityTests = e.identifiers.items]
        o  == IF e.csvs.err THEN [ops |-> t2.Operators, panic |-> FALSE]
              ELSE OperatorLoop(t2.Operators, e.csvs.items, file)
        t3 == [t2 EXCEPT !.Operators = o.ops]
        t4 == [t3 EXCEPT !.DeploymentsUnderTest = @ \o FindTestDeployments(labels, e)]
        t5 == [t4 EXCEPT !.Nodes = GetNodesList(e.master, e.worker)]
    IN  IF o.panic THEN [target |-> t3, panicked |-> TRUE]
        ELSE [target |-> t5, panicked |-> FALSE]

MainIdle ==
    /\ target = EmptyTarget /\ pc = "idle" /\ calls = 0 /\ env = NoEnv
    /\ configuredTestFile = TestFileUnreadable

CallFindTestTarget ==
    /\ pc \in {"idle", "done"}
    /\ calls < MaxCalls
    /\ \E e \in Envs :
          LET r == FindTestTarget(Labels, target, e, configuredPodTests, configuredTestFile)
          IN  /\ target' = r.target
              /\ pc' = IF r.panicked THEN "panicked" ELSE "done"
              /\ env' = e
    /\ calls' = calls + 1
    /\ UNCHANGED <<configuredPodTests, configuredTestFile>>
    /\ UNCHANGED <<nodeVars, crdVars, podVars, argVars>>

\* ========================================================== specifications
Init ==
    /\ target = EmptyTarget /\ pc = "idle" /\ calls = 0 /\ env = NoEnv
    /\ configuredTestFile \in TestFiles
    /\ configuredPodTests = <<"t1", "t2">>
    /\ NodesIdle /\ CrdIdle /\ PodIdle /\ ArgsIdle
Next == CallFindTestTarget
Spec == Init /\ [][Next]_vars

InitNodes ==
    /\ masterRun \in NodeRuns(MaxNodeNames) /\ workerRun \in NodeRuns(MaxNodeNames)
    /\ nodes = EmptyMap /\ nodesPc = "start"
    /\ MainIdle /\ configuredPodTests = <<>> /\ CrdIdle /\ PodIdle /\ ArgsIdle
SpecNodes == InitNodes /\ [][RunGetNodesList]_vars

InitCrd ==
    /\ crdOut \in CrdOuts /\ crdFilters \in SeqsUpTo(CrdFilters, MaxFilters)
    /\ targetCrdNames = <<>> /\ crdPc = "start"
    /\ MainIdle /\ configuredPodTests = <<>> /\ NodesIdle /\ PodIdle /\ ArgsIdle
SpecCrd == InitCrd /\ [][RunFindTestCrdNames]_vars

InitPod ==
    /\ pr \in PodResources /\ configuredPodTests \in TestLists
    /\ podUnderTest = NoPod /\ podPc = "start"
    /\ MainIdle /\ NodesIdle /\ CrdIdle /\ ArgsIdle
SpecPod == InitPod /\ [][RunBuildPodUnderTest]_vars

InitArgs ==
    /\ lst \in SeqsUpTo(Args, MaxArgs) /\ retval = EmptyMap /\ argPc = "start"
    /\ MainIdle /\ configuredPodTests = <<>> /\ NodesIdle /\ CrdIdle /\ PodIdle
SpecArgs == InitArgs /\ [][RunArgListToMap]_vars

\* ================================================================== claims
Resolves(annotations, key) == key \in DOMAIN annotations /\ ~annotations[key].bad

\* ------------------------------------------------------------ GetNodesList
\* C1: when the master-role query fails and the worker-role query succeeds,
\* the returned map holds exactly the names of the worker query, each tagged
\* with the worker role only.
C1_WorkerOnlyOnMasterFailure ==
    (nodesPc = "done" /\ masterRun.err /\ ~workerRun.err) =>
        /\ DOMAIN nodes = Range(workerRun.names)
        /\ \A k \in DOMAIN nodes :
              nodes[k].Name = k /\ Range(nodes[k].Labels) = {WorkerLabel}

\* C4: when both role queries succeed, the keys of the returned map are the
\* union of the two name lists, every entry is named by its key, and an entry
\* carries master iff its name is in the master result and worker iff its name
\* is in the worker result.
C4_NodesMerge ==
    (nodesPc = "done" /\ ~masterRun.err /\ ~workerRun.err) =>
        /\ DOMAIN nodes = Range(masterRun.names) \cup Range(workerRun.names)
        /\ \A k \in DOMAIN nodes :
              /\ nodes[k].Name = k
              /\ MasterLabel \in Range(nodes[k].Labels) <=> k \in Range(masterRun.names)
              /\ WorkerLabel \in Range(nodes[k].Labels) <=> k \in Range(workerRun.names)
              /\ Range(nodes[k].Labels) \subseteq {MasterLabel, WorkerLabel}

\* Both queries answered, one node in both results and one in the master's alone.
C4_Witness ==
    /\ nodesPc = "done" /\ ~masterRun.err /\ ~workerRun.err
    /\ \E a, b \in Range(masterRun.names) :
          /\ a \in Range(workerRun.names) /\ b \notin Range(workerRun.names)
          /\ nodes[a].Labels = <<MasterLabel, WorkerLabel>>
          /\ nodes[b].Labels = <<MasterLabel>>

\* -------------------------------------------------------- FindTestCrdNames
Matching(crdName, filters) ==
    {i \in 1..Len(filters) : HasSuffix(crdName, filters[i].NameSuffix)}
Reorderings(filters) ==
    {[i \in 1..Len(filters) |-> filters[p[i]]] :
        p \in {q \in [1..Len(filters) -> 1..Len(filters)] :
                 \A i, j \in 1..Len(filters) : q[i] = q[j] => i = j}}

\* C5: when the listing decodes, the result is the subsequence of the cluster
\* CRD names that end with some filter's suffix, in the cluster's order, one
\* entry per matching position however many filters match it, and every
\* reordering of the filters gives the same result.
C5_CrdSubsequence ==
    (crdPc = "done" /\ ~crdOut.err) =>
        LET Wanted(crdName) == Matching(crdName, crdFilters) # {}
        IN  /\ targetCrdNames = SelectSeq(crdOut.names, Wanted)
            /\ \A f \in Reorderings(crdFilters) :
                  FindTestCrdNames(f, crdOut) = targetCrdNames

\* A listed name matched by two filters, after a name no filter matches.
C5_Witness ==
    /\ crdPc = "done" /\ ~crdOut.err
    /\ \E i, j \in 1..Len(crdOut.names) :
          /\ i < j
          /\ Matching(crdOut.names[i], crdFilters) = {}
          /\ Cardinality(Matching(crdOut.names[j], crdFilters)) >= 2
    /\ Len(targetCrdNames) = 1

\* ------------------------------------------------------- buildPodUnderTest
\* C3 as stated: the built Pod's tests are non-empty whenever the configured
\* pod-test-group list is non-empty, whatever the annotation holds.
C3_TestsNonEmpty ==
    (podPc = "done" /\ configuredPodTests # <<>>) => podUnderTest.Tests # <<>>

\* C3 as amended: the built Pod's tests are non-empty whenever the configured
\* pod-test-group list is non-empty and the host_resource_tests annotation
\* does not decode to the empty list.
C3_TestsNonEmptyUnlessEmptyAnnotation ==
    (/\ podPc = "done" /\ configuredPodTests # <<>>
     /\ ~(/\ Resolves(pr.Annotations, podTestsAnnotationName)
          /\ pr.Annotations[podTestsAnnotationName].list = <<>>)) =>
        podUnderTest.Tests # <<>>

\* A pod whose annotation does not decode, built with a non-empty fallback.
C3_Witness ==
    /\ podPc = "done" /\ configuredPodTests # <<>>
    /\ podTestsAnnotationName \in DOMAIN pr.Annotations
    /\ pr.Annotations[podTestsAnnotationName].bad
    /\ podUnderTest.Tests # <<>>

\* C6: the built Pod's tests are the decoded annotation list when the
\* annotation resolves and the configured pod-test-group list when it is
\* missing or malformed; namespace, name, service account and container count
\* are those of the resource.
C6_PodTestsSource ==
    podPc = "done" =>
        /\ Resolves(pr.Annotations, podTestsAnnotationName) =>
              podUnderTest.Tests = pr.Annotations[podTestsAnnotationName].list
        /\ ~Resolves(pr.Annotations, podTestsAnnotationName) =>
              podUnderTest.Tests = configuredPodTests
        /\ podUnderTest.Namespace = pr.Namespace
        /\ podUnderTest.Name = pr.Name
        /\ podUnderTest.ServiceAccount = pr.ServiceAccount
        /\ podUnderTest.ContainerCount = Len(pr.Containers)

\* A two-element annotation list kept in order although the fallback differs.
C6_Witness ==
    /\ podPc = "done"
    /\ Resolves(pr.Annotations, podTestsAnnotationName)
    /\ podUnderTest.Tests = <<"t2", "t1">>
    /\ configuredPodTests = <<"t1">>
    /\ podUnderTest.ContainerCount = 2

\* ------------------------------------------------------------ ArgListToMap
HasEquals(arg) == \E i \in 1..Len(arg) : arg[i] = "="
FirstEquals(arg) == CHOOSE i \in 1..Len(arg) : arg[i] = "=" /\ \A h \in 1..(i - 1) : arg[h] # "="
KeyOf(arg) == IF HasEquals(arg) THEN SubSeq(arg, 1, FirstEquals(arg) - 1) ELSE arg
RestOf(arg) == IF HasEquals(arg) THEN SubSeq(arg, FirstEquals(arg) + 1, Len(arg)) ELSE <<>>

\* C9: the map sends the text before an element's first "=" to the whole text
\* after that first "=" (empty without "="), the last element with a key
\* winning, and has no other key.
C9_KeyToWholeRest ==
    argPc = "done" =>
        /\ DOMAIN retval = {KeyOf(lst[i]) : i \in 1..Len(lst)}
        /\ \A i \in 1..Len(lst) :
              (\A j \in (i + 1)..Len(lst) : KeyOf(lst[j]) # KeyOf(lst[i])) =>
                  retval[KeyOf(lst[i])] = RestOf(lst[i])

\* ---------------------------------------------------------- FindTestTarget
Called == calls' = calls + 1

RECURSIVE PodsOf(_, _)
PodsOf(labels, e) ==
    IF labels = <<>> THEN <<>>
    ELSE (IF e.pods[Head(labels)].err THEN <<>> ELSE e.pods[Head(labels)].items)
            \o PodsOf(Tail(labels), e)
RECURSIVE DeploymentsOf(_, _)
DeploymentsOf(labels, e) ==
    IF labels = <<>> THEN <<>>
    ELSE (IF e.deployments[Head(labels)].err THEN <<>> ELSE e.deployments[Head(labels)].items)
            \o DeploymentsOf(Tail(labels), e)

\* C2: the call never aborts partway: it runs to completion whatever the
\* queries answer and whatever the annotations hold.
C2_NeverAborts == pc # "panicked"

\* C7: every call appends the deployments of every label whose deployment
\* query succeeds, whatever the pod, skip-connectivity and
\* cluster-service-version queries answered.
C7_DeploymentsAppended ==
    [][Called =>
        target'.DeploymentsUnderTest =
            target.DeploymentsUnderTest \o DeploymentsOf(Labels, env')]_vars

\* C8: every call appends one Pod per (label, returned pod) pair and one
\* Deployment per (label, returned deployment) pair, in label order then
\* result order, duplicates kept; from an empty catalog the number of Pods is
\* the sum of the sizes of the successful pod results.
C8_OnePerLabelMatch ==
    [][Called =>
        LET pods == PodsOf(Labels, env')
            deps == DeploymentsOf(Labels, env')
        IN  /\ target'.PodsUnderTest =
                  target.PodsUnderTest
                      \o [i \in 1..Len(pods) |-> buildPodUnderTest(pods[i], configuredPodTests)]
            /\ target = EmptyTarget => Len(target'.PodsUnderTest) = Len(pods)
            /\ target'.DeploymentsUnderTest =
                  target.DeploymentsUnderTest
                      \o [i \in 1..Len(deps) |-> DeploymentEntity(deps[i])]]_vars

\* C10: every call keeps what PodsUnderTest, ContainerConfigList, Operators
\* and DeploymentsUnderTest held as a prefix, and leaves in Nodes and
\* ExcludeContainersFromConnectivityTests the outcome of its own node and
\* skip-connectivity queries, failed ones included.
C10_AppendOrOverwrite ==
    [][Called =>
        /\ IsPrefix(target.PodsUnderTest, target'.PodsUnderTest)
        /\ IsPrefix(target.ContainerConfigList, target'.ContainerConfigList)
        /\ IsPrefix(target.Operators, target'.Operators)
        /\ IsPrefix(target.DeploymentsUnderTest, target'.DeploymentsUnderTest)
        /\ target'.ExcludeContainersFromConnectivityTests = env'.identifiers.items
        /\ target'.Nodes = GetNodesList(env'.master, env'.worker)]_vars

\* ------------------------------------------------- calls that do return
\* What C7, C8 and C10 say holds of every call that returns; the calls that
\* break them are the panicking ones of C2.
Returned == Called /\ pc' = "done"
Returned_DeploymentsAppended ==
    [][Returned =>
        target'.DeploymentsUnderTest =
            target.DeploymentsUnderTest
                \o [i \in 1..Len(DeploymentsOf(Labels, env')) |->
                        DeploymentEntity(DeploymentsOf(Labels, env')[i])]]_vars
Returned_NodesOverwritten ==
    [][Returned => target'.Nodes = GetNodesList(env'.master, env'.worker)]_vars
\* The pod half of C8 and the append-only half of C10 hold of every call.
Called_PodsAppended ==
    [][Called =>
        target'.PodsUnderTest =
            target.PodsUnderTest
                \o [i \in 1..Len(PodsOf(Labels, env')) |->
                        buildPodUnderTest(PodsOf(Labels, env')[i], configuredPodTests)]]_vars
Called_AppendOnly ==
    [][Called =>
        /\ IsPrefix(target.PodsUnderTest, target'.PodsUnderTest)
        /\ IsPrefix(target.ContainerConfigList, target'.ContainerConfigList)
        /\ IsPrefix(target.Operators, target'.Operators)
        /\ IsPrefix(target.DeploymentsUnderTest, target'.DeploymentsUnderTest)
        /\ target'.ExcludeContainersFromConnectivityTests = env'.identifiers.items]_vars
====
